---- MODULE Spec2Model ----
(***************************************************************************)
(* Model of the viticulture harvester: the ingestion-job reconciler        *)
(* (internal/scheduler/scheduler.go), the process start-up that is meant   *)
(* to run it (cmd/harvester/main.go, internal/server/server.go), the       *)
(* concurrent batch save of satellite data and the observation store with  *)
(* the services in front of it (internal/db/db.go, internal/service).      *)
(*                                                                         *)
(* Spec       the reconciler: InitializeJobs called MaxRuns times in a row  *)
(*            (serialized) against one Cloud Scheduler, whose GetJob and   *)
(*            CreateJob calls succeed or fail nondeterministically, and    *)
(*            whose context may be cancelled at any point of a run.        *)
(* MainSpec   main(): the start-up sequence, with the outcome of every     *)
(*            initialisation drawn in the initial state.                   *)
(* JobSpec    ensureJob and createJob building the GetJob and CreateJob    *)
(*            requests of one source, for a range of keys and entries.     *)
(* BatchSpec  ConcurrentSaveSatelliteData: the launch loop, one goroutine   *)
(*            per item running SaveSatelliteData, the wait and the return. *)
(* StoreSpec  one service call (a save, a date-range listing or the        *)
(*            environmental snapshot) on a store filled by earlier saves.  *)
(***************************************************************************)
EXTENDS Integers, Sequences, FiniteSets, TLC

\* ------------------------------------------------------------------ bounds
\* number of data sources in the registry (config.Config.DataSources)
NumSources == 2
\* number of successive InitializeJobs calls the reconciler model makes
MaxRuns == 2

\* ------------------------------------------------------- configuration
\* keys of dataSources in configs/config-example.yaml
SourceNames == <<"satellite", "eosdis", "skywatch", "soil">>

Names == {SourceNames[k] : k \in 1..NumSources}

ProjectID == "our-google-cloud-project-id"

LocationID == "our-google-cloud-location-id"

\* a cron expression Cloud Scheduler rejects
MalformedSchedule == "every day"

\* a dataSources entry of config-example.yaml; `enabled` is varied, and the
\* schedule is either the file's or a malformed one
ExampleSource(name, enabled, wellFormed) ==
  [Enabled     |-> enabled,
   Schedule    |-> IF ~wellFormed THEN MalformedSchedule
                   ELSE IF name = "satellite" THEN "0 */6 * * *" ELSE "0 12 * * *",
   TimeZone    |-> "UTC",
   HttpMethod  |-> "GET",
   Endpoint    |-> IF name = "satellite" THEN "https://api.nasa.gov/planetary/earth/assets"
                   ELSE "https://worldview.earthdata.nasa.gov",
   Description |-> name]

\* the registries the model is checked for: every choice of enable flags and of
\* well-formed or malformed schedules
Registries ==
  {[n \in Names |-> ExampleSource(n, c[n][1], c[n][2])] :
     c \in [Names -> BOOLEAN \X BOOLEAN]}

\* ingestionSettings.retryPolicy.maxRetries of config-example.yaml
MaxRetries == 3

\* ingestionSettings.retryPolicy.backoffInterval of config-example.yaml ("30s"), in seconds
BackoffInterval == 30

\* Cfg.IngestionSettings.RetryPolicy
RetryPolicy == [MaxRetries |-> MaxRetries, BackoffInterval |-> BackoffInterval]

\* time.Second, in the model's unit of time (seconds)
Second == 1

\* `retryCount := 3`
retryCount == 3

Pow2(n) == 2 ^ n

\* time.Duration(math.Pow(2, float64(i))) * time.Second
waitTime(i) == Pow2(i) * Second

\* fmt.Sprintf("projects/%s/locations/%s/jobs/%s", ProjectID, LocationID, name)
jobName(name) == "projects/" \o ProjectID \o "/locations/" \o LocationID \o "/jobs/" \o name

\* the names of schedulerpb.HttpMethod_value other than HTTP_METHOD_UNSPECIFIED
HttpMethodNames == {"POST", "GET", "HEAD", "PUT", "DELETE", "PATCH", "OPTIONS"}

\* schedulerpb.HttpMethod(schedulerpb.HttpMethod_value[ds.HttpMethod]): a string
\* that is no key of the map yields the zero value
HttpMethodOf(m) == IF m \in HttpMethodNames THEN m ELSE "HTTP_METHOD_UNSPECIFIED"

\* createJob replacing every configured time zone by UTC
TimeZoneOf_AlwaysUTC(tz) == "UTC"

\* `tz := ds.TimeZone; if tz == "" { tz = "UTC" }`
TimeZoneOf(tz) == IF tz = "" THEN "UTC" ELSE tz

\* Headers: map[string]string{"Content-Type": "application/json"}, as a set of
\* <<name, value>> pairs
JobHeaders == {<<"Content-Type", "application/json">>}

\* HttpTarget.Body is never assigned: the zero value
NoBody == ""

\* the Job of the CreateJobRequest built by createJob
JobOf(jname, ds) ==
  [Name        |-> jname,
   Description |-> ds.Description,
   Schedule    |-> ds.Schedule,
   TimeZone    |-> TimeZoneOf(ds.TimeZone),
   Uri         |-> ds.Endpoint,
   HttpMethod  |-> HttpMethodOf(ds.HttpMethod),
   Headers     |-> JobHeaders,
   Body        |-> NoBody]

VARIABLES
  dataSources,  \* Cfg.DataSources: name -> DataSourceConfig (read-only)
  jobs,         \* the jobs held by the Cloud Scheduler, in creation order
  pc,           \* position of the reconciler: idle, range, GetJob, createJob, Sleep
  pending,      \* names the range loop of InitializeJobs has not visited yet
  cur,          \* name passed to the running ensureJob
  i,            \* loop counter of ensureJob's retry loop
  err,          \* err of the running ensureJob
  ensured,      \* this run: name -> what ensureJob returned ("none" before it returns)
  log,          \* this run: name -> the adapter calls and sleeps made for it, in order
  ret,          \* what the last InitializeJobs call returned ("none" before any)
  runs,         \* number of InitializeJobs calls started
  prevEnsured,  \* the names for which ensureJob returned nil in the previous run
  ctxDone,      \* the context of the running call is cancelled
  cancelAt,     \* where the cancellation struck: [pc, name, idx] (idx = Len(log[name]))
  mainPc,       \* position of main()
  env,          \* outcome of each initialisation main() performs
  key,          \* descriptor construction: the dataSources key, as its characters
  entry,        \* descriptor construction: the dataSources entry of the config file
  jpc,          \* descriptor construction: position in ensureJob / createJob
  getName,      \* descriptor construction: the Name of the GetJobRequest
  jobReq,       \* descriptor construction: the Job of the CreateJobRequest (jobReq.Job)
  datas,        \* batch save: the datas slice, each element nil or a *SatelliteData
  images,       \* batch save: len(imageDatas)
  li,           \* batch save: index the launch loop is at
  wpc,          \* batch save: position of each goroutine: none, ready, save, done
  wres,         \* batch save: what SaveSatelliteData returned in each goroutine
  uploaded,     \* batch save: the items whose image is in the storage bucket
  stored,       \* batch save: the items whose metadata row is in satellite_imagery
  errChan,      \* batch save: the errors sent on errChan (by item), in order
  wg,           \* batch save: the WaitGroup counter
  bpc,          \* batch save: position of ConcurrentSaveSatelliteData
  bret,         \* batch save: what ConcurrentSaveSatelliteData returned
  bfrom,        \* batch save: the item whose error it returned, if any
  rowURL,       \* batch save: item -> the image_url of the row written for it
  vineyards,    \* store: the ids of the rows of table vineyards
  table,        \* store: for each kind of observation, the rows of its table
  serial,       \* store: for each kind, the last id its SERIAL column handed out
  lastOp        \* store: the last service call made, with what it returned

vars == <<dataSources, jobs, pc, pending, cur, i, err, ensured, log, ret,
          runs, prevEnsured, ctxDone, cancelAt, mainPc, env,
          key, entry, jpc, getName, jobReq,
          datas, images, li, wpc, wres, uploaded, stored, errChan, wg, bpc, bret, bfrom,
          rowURL,
          vineyards, table, serial, lastOp>>

rcVars == <<jobs, pc, pending, cur, i, err, ensured, log, ret, runs, prevEnsured,
            ctxDone, cancelAt>>

mainVars == <<mainPc, env>>

cfgVars == <<dataSources>>

jobVars == <<key, entry, jpc, getName, jobReq>>

batchVars ==
  <<datas, images, li, wpc, wres, uploaded, stored, errChan, wg, bpc, bret, bfrom,
    rowURL>>

storeVars == <<vineyards, table, serial, lastOp>>

\* the variables the reconciler run and main() leave alone
otherVars == <<jobVars, batchVars, storeVars>>

\* the variables the descriptor construction leaves alone
jobFrame == <<cfgVars, rcVars, mainVars, batchVars, storeVars>>

\* the variables the batch save leaves alone
batchFrame == <<cfgVars, rcVars, mainVars, jobVars, storeVars>>

\* the variables the observation services leave alone
storeFrame == <<cfgVars, rcVars, mainVars, jobVars, batchVars>>

NoName == "-"

NotCancelled == [pc |-> "none", name |-> NoName, idx |-> 0]

Event(op, d, res) == [op |-> op, d |-> d, res |-> res]

\* the reconciler before any InitializeJobs call
RcAtRest ==
  /\ pc = "idle"
  /\ pending = {}
  /\ cur = NoName
  /\ i = 0
  /\ err = "nil"
  /\ ensured = [n \in Names |-> "none"]
  /\ log = [n \in Names |-> << >>]
  /\ ret = "none"
  /\ runs = 0
  /\ prevEnsured = {}
  /\ ctxDone = FALSE
  /\ cancelAt = NotCancelled

\* the reconciler at rest in front of a Cloud Scheduler that holds no job
RcIdle == jobs = << >> /\ RcAtRest

\* main() not under way, in an environment where everything initialises
MainIdle ==
  /\ mainPc = "none"
  /\ env = [cfgPath |-> TRUE, config |-> TRUE, db |-> TRUE, storage |-> TRUE,
            listen |-> TRUE, scheduler |-> TRUE]

\* the registry of config-example.yaml as it is
ExampleRegistry == [n \in Names |-> ExampleSource(n, TRUE, TRUE)]

NoEntry == [enabled |-> FALSE]

NoJob == [Name |-> ""]

\* no descriptor is under construction
JobIdle ==
  /\ key = << >>
  /\ entry = NoEntry
  /\ jpc = "off"
  /\ getName = ""
  /\ jobReq = NoJob

\* no batch save is under way
\* no item of a batch: the items are numbered from 1
NoItem == 0

BatchIdle ==
  /\ datas = << >>
  /\ images = 0
  /\ li = 0
  /\ wpc = << >>
  /\ wres = << >>
  /\ uploaded = {}
  /\ stored = {}
  /\ errChan = << >>
  /\ wg = 0
  /\ bpc = "off"
  /\ bret = "none"
  /\ bfrom = NoItem
  /\ rowURL = << >>

\* the kinds of observation, each with its table and its service
Kinds == {"soil", "pest", "weather", "image", "satellite"}

NoOp == [name |-> "none"]

\* the observation store is empty and no service call was made
StoreIdle ==
  /\ vineyards = {}
  /\ table = [k \in Kinds |-> {}]
  /\ serial = [k \in Kinds |-> 0]
  /\ lastOp = NoOp

\* ------------------------------------------- job descriptor construction
\* longest dataSources key the descriptor model is checked for
MaxKeyLen == 2

\* the characters of a dataSources key: a lower-case letter, an upper-case
\* letter (as in the key eosdaLandViewer) and a space
KeyChars == {"s", "S", " "}

\* the keys, as sequences of their characters
Keys == UNION {[1..n -> KeyChars] : n \in 1..MaxKeyLen}

\* the key as the string `name` that range hands to ensureJob
RECURSIVE KeyString(_)
KeyString(k) == IF k = << >> THEN "" ELSE k[1] \o KeyString(Tail(k))

\* dataSources entries of the config file: the databaseCleanup entry with the
\* time zone, method and schedule varied, and with or without the keys
\* `headers` and `body`
Entries ==
  [enabled     : {TRUE},
   schedule    : {"0 0 * * 0", MalformedSchedule},
   timeZone    : {"", "UTC", "America/Los_Angeles"},
   httpMethod  : {"GET", "POST", "PUT", "DELETE"},
   endpoint    : {"https://foo.com/api/v1/maintenance/db_cleanup"},
   description : {"Weekly database cleanup to maintain performance and storage efficiency."},
   headers     : {{}, {<<"Authorization", "Bearer token">>}},
   body        : {"", "scope=all"}]

\* yaml.Unmarshal into DataSourceConfig: the declared fields are filled, keys
\* the struct does not declare (headers, body) are dropped
DecodeSource(e) ==
  [Enabled     |-> e.enabled,
   Schedule    |-> e.schedule,
   TimeZone    |-> e.timeZone,
   HttpMethod  |-> e.httpMethod,
   Endpoint    |-> e.endpoint,
   Description |-> e.description]

\* ensureJob is entered for one enabled source of the registry
JobInit ==
  /\ dataSources = ExampleRegistry
  /\ RcIdle
  /\ MainIdle
  /\ BatchIdle
  /\ StoreIdle
  /\ key \in Keys
  /\ entry \in Entries
  /\ jpc = "ensureJob"
  /\ getName = ""
  /\ jobReq = NoJob

\* ensureJob, lines 64-65: jobName is formatted from name and is the Name of
\* the GetJobRequest (the scheduler holds no job: the retry loop is entered)
GetJobRequest ==
  /\ jpc = "ensureJob"
  /\ getName' = jobName(KeyString(key))
  /\ jpc' = "createJob"
  /\ UNCHANGED <<key, entry, jobReq, jobFrame>>

\* ensureJob line 79 and createJob lines 91-114: the same jobName and the
\* decoded entry make the Job of the CreateJobRequest
CreateJobRequest ==
  /\ jpc = "createJob"
  /\ jobReq' = JobOf(getName, DecodeSource(entry))
  /\ jpc' = "done"
  /\ UNCHANGED <<key, entry, getName, jobFrame>>

JobNext == GetJobRequest \/ CreateJobRequest

JobSpec == JobInit /\ [][JobNext]_vars

\* --------------------------------------------------- Cloud Scheduler
JobExists(js, jname) == \E k \in 1..Len(js) : js[k].Name = jname

JobCount(js, jname) == Cardinality({k \in 1..Len(js) : js[k].Name = jname})

\* what sc.Client.GetJob can return: the job (nil error), codes.NotFound, or
\* another status; a cancelled context makes the call fail with Canceled
GetJobResults(js, jname, done) ==
  IF done THEN {"Canceled"}
  ELSE (IF JobExists(js, jname) THEN {"nil"} ELSE {"NotFound"}) \cup {"PermissionDenied"}

\* what sc.Client.CreateJob can return: the created job (nil error), a transient
\* Unavailable, InvalidArgument for a job Cloud Scheduler rejects (here: a
\* malformed schedule); a cancelled context makes the call fail with Canceled
CreateJobResults(job, done) ==
  IF done THEN {"Canceled"}
  ELSE IF job.Schedule = MalformedSchedule THEN {"InvalidArgument"}
  ELSE {"nil", "Unavailable"}

\* ------------------------------------------------------- the reconciler
\* ensureJob without the existing-job early return: a found job is created again
EnsureAfterGetJob_NoShortCircuit(e) ==
  IF e # "nil" /\ e # "NotFound" THEN "return_err" ELSE "retry"

\* ensureJob without the early return on a GetJob error: every error leads to
\* the retry loop
EnsureAfterGetJob_RetryOnError(e) ==
  IF e = "nil" THEN "return_nil" ELSE "retry"

\* ensureJob after GetJob: lines 67-74
EnsureAfterGetJob(e) ==
  IF e # "nil" /\ e # "NotFound" THEN "return_err"
  ELSE IF e = "nil" THEN "return_nil"
  ELSE "retry"

\* ensureJob bringing a job it found in line with the configuration
JobsAfterFound_Patched(js, job) ==
  [k \in 1..Len(js) |-> IF js[k].Name = job.Name THEN job ELSE js[k]]

\* `if err == nil { log.Printf("Job %s already exists", name); return nil }`:
\* the job found is not compared with the configuration and stays as it is
JobsAfterFound(js, job) == js

\* the retry loop without its `return nil`: it goes on after a created job
ReturnsOnCreate_Never(e) == FALSE

\* `if err = sc.createJob(...); err == nil { return nil }`
ReturnsOnCreate(e) == e = "nil"

\* the loop condition `i < retryCount`
LoopContinues(k) == k < retryCount

\* InitializeJobs ensuring the job of every source of the map
ShouldEnsure_Always(ds) == TRUE

\* InitializeJobs visits a source only `if ds.Enabled`
ShouldEnsure(ds) == ds.Enabled

\* InitializeJobs returning at the first ensureJob error: nothing is left to visit
RangeAfterEnsure_StopOnError(rest, e) == IF e = "nil" THEN rest ELSE {}

\* InitializeJobs only logs the error of ensureJob: the range loop goes on
RangeAfterEnsure(rest, e) == rest

\* InitializeJobs handing an ensureJob error to its caller
InitializeJobsReturn_Error(results) ==
  IF \E n \in DOMAIN results : results[n] \notin {"none", "nil"} THEN "error" ELSE "nil"

\* InitializeJobs ends with `return nil`
InitializeJobsReturn(results) == "nil"

Init ==
  /\ dataSources \in Registries
  /\ RcIdle
  /\ MainIdle
  /\ JobIdle
  /\ BatchIdle
  /\ StoreIdle

\* entry of sc.InitializeJobs(ctx): the range loop starts over the whole map
StartRun ==
  /\ runs' = runs + 1
  /\ prevEnsured' = {n \in Names : ensured[n] = "nil"}
  /\ ensured' = [n \in Names |-> "none"]
  /\ log' = [n \in Names |-> << >>]
  /\ pending' = DOMAIN dataSources
  /\ ctxDone' = FALSE
  /\ cancelAt' = NotCancelled
  /\ ret' = "none"
  /\ pc' = "range"
  /\ cur' = NoName
  /\ i' = 0
  /\ err' = "nil"
  /\ UNCHANGED jobs

\* a caller invokes sc.InitializeJobs(ctx) with a fresh context
InitializeJobs ==
  /\ pc = "idle"
  /\ runs < MaxRuns
  /\ StartRun
  /\ UNCHANGED <<cfgVars, mainVars, otherVars>>

\* one iteration of `for name, ds := range sc.Cfg.DataSources` (map order is
\* unspecified), or the end of the loop and `return nil`
Range ==
  /\ pc = "range"
  /\ IF pending = {}
       THEN /\ pc' = "idle"
            /\ ret' = InitializeJobsReturn(ensured)
            /\ UNCHANGED <<pending, cur>>
       ELSE \E name \in pending :
              IF ShouldEnsure(dataSources[name])
                THEN /\ cur' = name
                     /\ pc' = "GetJob"
                     /\ UNCHANGED <<pending, ret>>
                ELSE /\ pending' = pending \ {name}
                     /\ UNCHANGED <<pc, cur, ret>>
  /\ UNCHANGED <<jobs, i, err, ensured, log, runs, prevEnsured, ctxDone, cancelAt,
                 cfgVars, mainVars, otherVars>>

\* ensureJob returns e to InitializeJobs, which logs a non-nil e and goes on;
\* the locals of ensureJob are gone
EnsureReturn(e) ==
  /\ ensured' = [ensured EXCEPT ![cur] = e]
  /\ pending' = RangeAfterEnsure(pending \ {cur}, e)
  /\ pc' = "range"
  /\ cur' = NoName
  /\ i' = 0
  /\ err' = "nil"

\* ensureJob, lines 64-74: the GetJob call and the two early returns
GetJob ==
  /\ pc = "GetJob"
  /\ \E r \in GetJobResults(jobs, jobName(cur), ctxDone) :
       /\ log' = [log EXCEPT ![cur] = Append(@, Event("GetJob", 0, r))]
       /\ jobs' = IF EnsureAfterGetJob(r) = "return_nil"
                    THEN JobsAfterFound(jobs, JobOf(jobName(cur), dataSources[cur]))
                    ELSE jobs
       /\ CASE EnsureAfterGetJob(r) = "return_err" -> EnsureReturn(r)
            [] EnsureAfterGetJob(r) = "return_nil" -> EnsureReturn("nil")
            [] OTHER -> IF LoopContinues(0)
                          THEN /\ pc' = "createJob"
                               /\ err' = r
                               /\ i' = 0
                               /\ UNCHANGED <<ensured, pending, cur>>
                          ELSE EnsureReturn(r)
  /\ UNCHANGED <<ret, runs, prevEnsured, ctxDone, cancelAt, cfgVars, mainVars, otherVars>>

\* ensureJob, lines 79-82: one createJob attempt of the retry loop
CreateJob ==
  /\ pc = "createJob"
  /\ \E r \in CreateJobResults(JobOf(jobName(cur), dataSources[cur]), ctxDone) :
       /\ log' = [log EXCEPT ![cur] = Append(@, Event("CreateJob", 0, r))]
       /\ jobs' = IF r = "nil" THEN Append(jobs, JobOf(jobName(cur), dataSources[cur]))
                  ELSE jobs
       /\ IF ReturnsOnCreate(r)
            THEN EnsureReturn("nil")
            ELSE /\ pc' = "Sleep"
                 /\ err' = r
                 /\ UNCHANGED <<ensured, pending, cur, i>>
  /\ UNCHANGED <<ret, runs, prevEnsured, ctxDone, cancelAt, cfgVars, mainVars, otherVars>>

\* ensureJob, lines 83-88: time.Sleep(waitTime) runs its full duration, then
\* i++ and either the next attempt or the final error
Sleep ==
  /\ pc = "Sleep"
  /\ log' = [log EXCEPT ![cur] = Append(@, Event("Sleep", waitTime(i), "nil"))]
  /\ IF LoopContinues(i + 1)
       THEN /\ pc' = "createJob"
            /\ i' = i + 1
            /\ UNCHANGED <<ensured, pending, cur, err>>
       ELSE EnsureReturn(err)
  /\ UNCHANGED <<jobs, ret, runs, prevEnsured, ctxDone, cancelAt, cfgVars, mainVars, otherVars>>

\* the caller cancels the context of the running InitializeJobs call
Cancel ==
  /\ pc \in {"range", "GetJob", "createJob", "Sleep"}
  /\ ~ctxDone
  /\ ctxDone' = TRUE
  /\ cancelAt' = [pc |-> pc, name |-> cur,
                  idx |-> IF cur = NoName THEN 0 ELSE Len(log[cur])]
  /\ UNCHANGED <<jobs, pc, pending, cur, i, err, ensured, log, ret, runs, prevEnsured,
                 cfgVars, mainVars, otherVars>>

Next == InitializeJobs \/ Range \/ GetJob \/ CreateJob \/ Sleep \/ Cancel

Spec == Init /\ [][Next]_vars

\* ------------------------------------- a scheduler that already holds jobs
\* a source name that the configuration no longer has
RemovedName == SourceNames[NumSources + 1]

\* a job created under an earlier configuration of the source: its schedule,
\* time zone and target are not the ones configured now
StaleJob(name) ==
  [JobOf(jobName(name), ExampleSource(name, TRUE, TRUE)) EXCEPT
     !.Schedule = "0 0 1 1 *",
     !.TimeZone = "Europe/Paris",
     !.Uri = "https://example.com/v0"]

\* what the Cloud Scheduler can hold before the reconciler runs: stale jobs of
\* some of the configured sources and of the removed one
ExistingJobs ==
  {LET names == SelectSeq(SubSeq(SourceNames, 1, NumSources + 1), LAMBDA n : n \in S)
   IN  [k \in 1..Len(names) |-> StaleJob(names[k])] :
     S \in SUBSET (Names \cup {RemovedName}) \ {{}}}

DriftInit ==
  /\ dataSources \in Registries
  /\ jobs \in ExistingJobs
  /\ RcAtRest
  /\ MainIdle
  /\ JobIdle
  /\ BatchIdle
  /\ StoreIdle

\* the reconciler run against a scheduler that already holds jobs
DriftSpec == DriftInit /\ [][Next]_vars

\* ------------------------------------------------------------- main()
\* what the environment lets each initialisation of main() do: CONFIG_PATH is
\* set, LoadConfig, db.NewDB, storage.NewStorageService succeed, the port can
\* be listened on, scheduler.NewSchedulerClient succeeds
Environments ==
  [cfgPath : BOOLEAN, config : BOOLEAN, db : BOOLEAN, storage : BOOLEAN,
   listen : BOOLEAN, scheduler : BOOLEAN]

\* what http.ListenAndServe can return: it blocks while the server serves and
\* always returns a non-nil error
ListenAndServeReturns == {"error"}

MainInit ==
  /\ dataSources \in Registries
  /\ env \in Environments
  /\ mainPc = "LoadConfig"
  /\ RcIdle
  /\ JobIdle
  /\ BatchIdle
  /\ StoreIdle

\* main, lines 35-42: CONFIG_PATH and config.LoadConfig, log.Fatal on failure
MainLoadConfig ==
  /\ mainPc = "LoadConfig"
  /\ mainPc' = IF env.cfgPath /\ env.config THEN "NewDB" ELSE "fatal"
  /\ UNCHANGED <<env, cfgVars, rcVars, otherVars>>

\* main, lines 45-48
MainNewDB ==
  /\ mainPc = "NewDB"
  /\ mainPc' = IF env.db THEN "NewStorageService" ELSE "fatal"
  /\ UNCHANGED <<env, cfgVars, rcVars, otherVars>>

\* main, lines 51-55
MainNewStorageService ==
  /\ mainPc = "NewStorageService"
  /\ mainPc' = IF env.storage THEN "NewRouter" ELSE "fatal"
  /\ UNCHANGED <<env, cfgVars, rcVars, otherVars>>

\* main, lines 58-69: the services, the router and server.NewServer
MainNewRouter ==
  /\ mainPc = "NewRouter"
  /\ mainPc' = "Start"
  /\ UNCHANGED <<env, cfgVars, rcVars, otherVars>>

\* main, line 70: srv.Start calls http.ListenAndServe, which either fails at
\* once (log.Fatalf) or starts serving and does not return while it serves
MainStart ==
  /\ mainPc = "Start"
  /\ mainPc' = IF env.listen THEN "serving" ELSE "fatal"
  /\ UNCHANGED <<env, cfgVars, rcVars, otherVars>>

\* main, lines 70-86: srv.Start returns. A non-nil error is fatal; after a nil
\* one main goes on to NewSchedulerClient and InitializeJobs
MainStartReturns ==
  /\ mainPc = "serving"
  /\ \E r \in ListenAndServeReturns :
       IF r # "nil"
         THEN /\ mainPc' = "fatal"
              /\ UNCHANGED rcVars
         ELSE IF env.scheduler
                THEN /\ mainPc' = "InitializeJobs"
                     /\ StartRun
                ELSE /\ mainPc' = "fatal"
                     /\ UNCHANGED rcVars
  /\ UNCHANGED <<env, cfgVars, otherVars>>

\* the steps main() takes on its own
MainProgram ==
  MainLoadConfig \/ MainNewDB \/ MainNewStorageService \/ MainNewRouter \/ MainStart

MainNext ==
  \/ MainLoadConfig
  \/ MainNewDB
  \/ MainNewStorageService
  \/ MainNewRouter
  \/ MainStart
  \/ MainStartReturns

\* main() is a running process: it takes its next step whenever it has one; the
\* server failing is up to the environment
MainSpec == MainInit /\ [][MainNext]_vars /\ WF_vars(MainProgram)

\* ------------------------------------------------ reading a run's log
\* positions of the calls of operation op made for source n in this run
Calls(n, op) == {k \in 1..Len(log[n]) : log[n][k].op = op}

NumCreate(n) == Cardinality(Calls(n, "CreateJob"))

\* the durations slept for source n in this run, in order
Sleeps(n) ==
  LET s == SelectSeq(log[n], LAMBDA e : e.op = "Sleep")
  IN  [k \in 1..Len(s) |-> s[k].d]

\* an InitializeJobs call has returned
RunDone == pc = "idle" /\ runs > 0

Enabled(n) == dataSources[n].Enabled

Failed(n) == ensured[n] \notin {"none", "nil"}

Succeeded(n) == ensured[n] = "nil"

\* GetJob for n answered not-found and every CreateJob made for n so far failed
NotFoundAndAllCreatesFailed(n) ==
  /\ Len(log[n]) > 0
  /\ log[n][1].res = "NotFound"
  /\ \A k \in Calls(n, "CreateJob") : log[n][k].res # "nil"

\* GetJob for n answered not-found and every CreateJob made for n so far failed
\* with the transient Unavailable
NotFoundAndAllCreatesUnavailable(n) ==
  /\ Len(log[n]) > 0
  /\ log[n][1].res = "NotFound"
  /\ \A k \in Calls(n, "CreateJob") : log[n][k].res = "Unavailable"

TypeOK ==
  /\ dataSources \in Registries
  /\ pc \in {"idle", "range", "GetJob", "createJob", "Sleep"}
  /\ pending \subseteq Names
  /\ i \in 0..retryCount
  /\ runs \in 0..MaxRuns
  /\ RetryPolicy \in [MaxRetries : Nat, BackoffInterval : Nat]

\* ------------------------------------------------------------- claims

C2_CreateJobAttempts ==
  \A n \in Names :
    /\ NumCreate(n) <= RetryPolicy.MaxRetries + 1
    /\ (Failed(n) /\ NotFoundAndAllCreatesUnavailable(n))
         => NumCreate(n) = RetryPolicy.MaxRetries + 1
    /\ \A k \in Calls(n, "CreateJob") : log[n][k].res = "nil" => k = Len(log[n])

\* C3: when a run has ended, GetJob was issued for every enabled source; a
\* source whose CreateJob calls all failed is recorded as failed and a source
\* with a successful CreateJob is recorded as succeeded and has its job; and
\* during a run no enabled source that ensureJob has not returned for is
\* dropped from the sources still to visit. Range picks the sources in any
\* order, so this covers every order of visiting.
C3_IndependentFailureDomains ==
  /\ RunDone =>
       \A n \in Names : Enabled(n) =>
         /\ Calls(n, "GetJob") # {}
         /\ (NotFoundAndAllCreatesFailed(n) /\ NumCreate(n) > 0) => Failed(n)
         /\ (\E k \in Calls(n, "CreateJob") : log[n][k].res = "nil")
              => Succeeded(n) /\ JobExists(jobs, jobName(n))
  /\ pc # "idle" =>
       \A n \in Names : (Enabled(n) /\ ensured[n] = "none") => n \in pending

\* C3 witness: a run has ended with a source A whose CreateJob calls all
\* failed, recorded as failed, and a source B created and recorded as succeeded.
C3_Witness ==
  /\ RunDone
  /\ \E a, b \in Names :
       /\ a # b
       /\ Failed(a) /\ NotFoundAndAllCreatesFailed(a) /\ NumCreate(a) = retryCount
       /\ Succeeded(b) /\ NumCreate(b) >= 1 /\ JobExists(jobs, jobName(b))

\* C4: the scheduler never holds two jobs under the name of one data source.
C4_AtMostOneJobPerSource ==
  \A n \in Names : JobCount(jobs, jobName(n)) <= 1

\* C4 witness: after a restart (second run) a source's job exists, created in
\* this run after at least one failed and retried CreateJob.
C4_Witness ==
  /\ runs = 2
  /\ RunDone
  /\ \E n \in Names : JobCount(jobs, jobName(n)) = 1 /\ NumCreate(n) >= 2

\* C5 (as stated): a source whose GetJob failed with an error other than
\* not-found (here PermissionDenied) is not abandoned: once ensureJob has
\* returned for it, CreateJob was attempted.
C5_GetJobErrorEntersRetryLoop ==
  \A n \in Names :
    (Len(log[n]) > 0 /\ log[n][1].res = "PermissionDenied" /\ ensured[n] # "none")
      => NumCreate(n) >= 1

\* C5 (amended): a GetJob error other than not-found ends ensureJob at once:
\* no CreateJob call is made for the source, which is recorded as failed with
\* that error; only a not-found GetJob is followed by CreateJob calls.
C5_GetJobErrorAbandonsSource ==
  \A n \in Names :
    /\ (Len(log[n]) > 0 /\ log[n][1].res \notin {"nil", "NotFound"})
         => Len(log[n]) = 1 /\ ensured[n] = log[n][1].res
    /\ NumCreate(n) > 0 => log[n][1] = Event("GetJob", 0, "NotFound")

\* C5 witness: GetJob failed with PermissionDenied for a source, which is
\* recorded as failed with it, while the context is not cancelled.
C5_Witness ==
  \E n \in Names :
    /\ log[n] = <<Event("GetJob", 0, "PermissionDenied")>>
    /\ ensured[n] = "PermissionDenied"
    /\ ~ctxDone

\* C6 (as stated): the k-th sleep for a source lasts backoffInterval * 2^(k-1),
\* every sleep is followed by another attempt before the source is recorded,
\* and a source that failed on not-found with every attempt failing (with
\* Unavailable) slept MaxRetries times.
C6_BackoffSleeps ==
  \A n \in Names :
    /\ \A k \in 1..Len(Sleeps(n)) : Sleeps(n)[k] = RetryPolicy.BackoffInterval * Pow2(k - 1)
    /\ ensured[n] # "none" => (Len(log[n]) > 0 => log[n][Len(log[n])].op # "Sleep")
    /\ (Failed(n) /\ NotFoundAndAllCreatesUnavailable(n))
         => Len(Sleeps(n)) = RetryPolicy.MaxRetries

\* C7: every InitializeJobs call that has returned returned nil.
C7_InitializeJobsReturnsNil ==
  RunDone => ret = "nil"

\* C7 witness: a run has ended with one source failed and another succeeded,
\* and InitializeJobs returned nil.
C7_Witness ==
  /\ RunDone
  /\ ret = "nil"
  /\ \E a, b \in Names : Failed(a) /\ Succeeded(b)

\* every initialisation main() performs succeeds and the port can be bound
AllInitialise ==
  env.cfgPath /\ env.config /\ env.db /\ env.storage /\ env.listen /\ env.scheduler

\* C8 (as stated): when everything initialises, main() eventually invokes
\* InitializeJobs, unless the process has died before.
C8_ReconciliationRunsAtStartup ==
  AllInitialise => <>(mainPc = "InitializeJobs" \/ mainPc = "fatal")

\* C9 (as stated): once the context is cancelled during a backoff sleep for a
\* source, no further CreateJob call is made for it and it is recorded as
\* failed with the cancellation.
C9_CancellationAbortsBackoff ==
  cancelAt.pc = "Sleep" =>
    /\ \A k \in Calls(cancelAt.name, "CreateJob") : k <= cancelAt.idx
    /\ ensured[cancelAt.name] \in {"none", "Canceled"}

\* C10 (as stated): a CreateJob call that failed with InvalidArgument is the
\* last thing done for its source: no sleep and no further call follow it.
C10_InvalidArgumentNotRetried ==
  \A n \in Names :
    \A k \in Calls(n, "CreateJob") :
      log[n][k].res = "InvalidArgument" => k = Len(log[n])

\* ------------------------------------------- claims on the job descriptor
\* the Job of a CreateJobRequest has been built
JobBuilt == jpc = "done"

\* the methods that carry a request body
BodyMethods == {"POST", "PUT", "PATCH"}

\* the canonical job name of the specification: the key lower-cased, spaces
\* replaced by hyphens
LowerCase(c) == IF c = "S" THEN "s" ELSE c

normalize(k) == [x \in DOMAIN k |-> IF k[x] = " " THEN "-" ELSE LowerCase(k[x])]

\* C11 (as stated): the job built for a source has the configured endpoint as
\* uri, the configured method, the configured headers, and the configured body
\* when the method is POST, PUT or PATCH and no body otherwise.
C11_HttpTargetFollowsConfig ==
  JobBuilt =>
    /\ jobReq.Uri = entry.endpoint
    /\ jobReq.HttpMethod = entry.httpMethod
    /\ jobReq.Headers = entry.headers
    /\ jobReq.Body = IF entry.httpMethod \in BodyMethods THEN entry.body ELSE NoBody

\* C12: the job built for a source has the configured schedule, and the
\* configured time zone unless that is empty, in which case it has "UTC".
C12_ScheduleAndTimeZoneVerbatim ==
  JobBuilt =>
    /\ jobReq.Schedule = entry.schedule
    /\ jobReq.TimeZone = IF entry.timeZone = "" THEN "UTC" ELSE entry.timeZone

\* C12 witness: a job has been built for a source configured with an empty
\* time zone (its schedule one Cloud Scheduler would reject) and carries "UTC"
\* and that schedule.
C12_Witness ==
  /\ JobBuilt
  /\ entry.timeZone = ""
  /\ entry.schedule = MalformedSchedule
  /\ jobReq.TimeZone = "UTC"
  /\ jobReq.Schedule = MalformedSchedule

\* C13 (as stated): the name looked up with GetJob is the job name of the
\* normalized key, normalizing twice is normalizing once, and the job built
\* for CreateJob carries the name that was looked up.
C13_JobNameIsNormalized ==
  /\ normalize(normalize(key)) = normalize(key)
  /\ jpc \in {"createJob", "done"} => getName = jobName(KeyString(normalize(key)))
  /\ JobBuilt => jobReq.Name = getName

\* ------------------------------------------------ concurrent batch save
\* (satelliteServiceImpl.ConcurrentSaveSatelliteData and SaveSatelliteData)
\* largest batch the batch save is checked for
MaxBatch == 3

\* the datas slices: each element a nil pointer or a *SatelliteData
Batches == UNION {[1..n -> {"nil", "data"}] : n \in 0..MaxBatch}

\* what s.storage.UploadFile and s.db.SaveSatelliteImageryMetadata can return
CallResults == {"nil", "error"}

Items == 1..Len(datas)

\* ConcurrentSaveSatelliteData going on to close(errChan) without wg.Wait()
WaitReturns_NoWait(counter) == TRUE

\* wg.Wait() returns when the counter is zero
WaitReturns(counter) == counter = 0

\* a goroutine whose save failed undoing the rows the other goroutines wrote
StoredAfterError_Rollback(rows) == {}

\* a failed SaveSatelliteData only sends its error: the rows already written by
\* the other goroutines stay
StoredAfterError(rows) == rows

\* `for err := range errChan { if err != nil { return err } }; return nil` on the
\* closed channel: the first error sent, or nil
DrainErrors(ch) == IF ch = << >> THEN "nil" ELSE "error"

\* a drain that goes through the whole channel and keeps the last error
FirstRead_Last(ch) == IF ch = << >> THEN NoItem ELSE ch[Len(ch)]

\* the item whose error that loop returns: the one at the head of the channel
FirstRead(ch) == IF ch = << >> THEN NoItem ELSE Head(ch)

\* a channel with room for one error
Capacity_One(n) == 1

\* make(chan error, len(datas)): room for one error of every item
Capacity(n) == n

\* no row, so no image_url
NoURL == << >>

\* "satellite_images/"+data.ImageURL: the object name of item k's image
Path(k) == <<"satellite_images/", k>>

\* attrs.MediaLink: the download URL the bucket gives the object
MediaLink(path) == <<"MediaLink", path>>

\* a save that inserts the ImageURL it was handed
UrlStored_Given(given, returned) == given

\* `data.ImageURL = imageURL`: the row gets the URL returned by UploadFile
UrlStored(given, returned) == returned

BatchInit ==
  /\ dataSources = ExampleRegistry
  /\ RcIdle
  /\ MainIdle
  /\ JobIdle
  /\ StoreIdle
  /\ datas \in Batches
  /\ images \in {Len(datas), Len(datas) + 1}
  /\ li = 1
  /\ wpc = [k \in Items |-> "none"]
  /\ wres = [k \in Items |-> "none"]
  /\ uploaded = {}
  /\ stored = {}
  /\ errChan = << >>
  /\ wg = 0
  /\ bpc = "call"
  /\ bret = "none"
  /\ bfrom = NoItem
  /\ rowURL = [k \in Items |-> NoURL]

\* lines 109-114: the length check, then the WaitGroup and the channel
CheckLengths ==
  /\ bpc = "call"
  /\ IF Len(datas) # images
       THEN bpc' = "returned" /\ bret' = "error"
       ELSE bpc' = "launch" /\ UNCHANGED bret
  /\ UNCHANGED <<datas, images, li, wpc, wres, uploaded, stored, errChan, wg, bfrom,
                 rowURL, batchFrame>>

\* lines 116-124: one iteration of the launch loop (wg.Add(1); go func), or
\* its end
Launch ==
  /\ bpc = "launch"
  /\ IF li \in Items
       THEN /\ wg' = wg + 1
            /\ wpc' = [wpc EXCEPT ![li] = "ready"]
            /\ li' = li + 1
            /\ UNCHANGED bpc
       ELSE /\ bpc' = "Wait"
            /\ UNCHANGED <<wg, wpc, li>>
  /\ UNCHANGED <<datas, images, wres, uploaded, stored, errChan, bret, bfrom, rowURL,
                 batchFrame>>

\* the goroutine of item k: SaveSatelliteData returned an error, which is sent
\* on errChan (buffered for len(datas) errors), then the deferred wg.Done()
SaveFails(k) ==
  /\ Len(errChan) < Capacity(Len(datas))
  /\ errChan' = Append(errChan, k)
  /\ wres' = [wres EXCEPT ![k] = "error"]
  /\ wpc' = [wpc EXCEPT ![k] = "done"]
  /\ wg' = wg - 1
  /\ stored' = StoredAfterError(stored)

\* SaveSatelliteData lines 48-55 in the goroutine of item k: the nil check and
\* s.storage.UploadFile
UploadFile(k) ==
  /\ wpc[k] = "ready"
  /\ IF datas[k] = "nil"
       THEN SaveFails(k) /\ UNCHANGED uploaded
       ELSE \E r \in CallResults :
              IF r # "nil"
                THEN SaveFails(k) /\ UNCHANGED uploaded
                ELSE /\ uploaded' = uploaded \cup {k}
                     /\ wpc' = [wpc EXCEPT ![k] = "save"]
                     /\ UNCHANGED <<wres, errChan, wg, stored>>
  /\ UNCHANGED <<datas, images, li, bpc, bret, bfrom, rowURL, batchFrame>>

\* SaveSatelliteData lines 57-60 in the goroutine of item k:
\* s.db.SaveSatelliteImageryMetadata, then the goroutine ends
SaveSatelliteImageryMetadata(k) ==
  /\ wpc[k] = "save"
  /\ \E r \in CallResults :
       IF r # "nil"
         THEN SaveFails(k) /\ UNCHANGED rowURL
         ELSE /\ stored' = stored \cup {k}
              /\ rowURL' = [rowURL EXCEPT ![k] = UrlStored(Path(k), MediaLink(Path(k)))]
              /\ wres' = [wres EXCEPT ![k] = "nil"]
              /\ wpc' = [wpc EXCEPT ![k] = "done"]
              /\ wg' = wg - 1
              /\ UNCHANGED errChan
  /\ UNCHANGED <<datas, images, li, uploaded, bpc, bret, bfrom, batchFrame>>

\* lines 126-136: wg.Wait(), close(errChan), the range over it and the return
WaitAndReturn ==
  /\ bpc = "Wait"
  /\ WaitReturns(wg)
  /\ bret' = DrainErrors(errChan)
  /\ bfrom' = FirstRead(errChan)
  /\ bpc' = "returned"
  /\ UNCHANGED <<datas, images, li, wpc, wres, uploaded, stored, errChan, wg, rowURL,
                 batchFrame>>

BatchNext ==
  \/ CheckLengths
  \/ Launch
  \/ \E k \in Items : UploadFile(k)
  \/ \E k \in Items : SaveSatelliteImageryMetadata(k)
  \/ WaitAndReturn

BatchSpec == BatchInit /\ [][BatchNext]_vars

\* the batch save with the Go scheduler running whatever can run: the caller
\* or a goroutine that is not blocked takes its next step
BatchFairSpec == BatchSpec /\ WF_vars(BatchNext)

\* ------------------------------------------------ claims on the batch save
\* the call has returned after launching its goroutines
BatchReturned == bpc = "returned" /\ Len(datas) = images

SaveDone(k) == wpc[k] = "done"

\* C14: for a batch with one image per observation, when
\* ConcurrentSaveSatelliteData has returned, one save was launched for every
\* observation and every one of them has completed; it returned nil if and only
\* if every save returned nil (so an error whenever one failed). Before it
\* returns, no save runs that was not launched by the loop, one per index.
C14_ReturnsAfterEverySave ==
  /\ BatchReturned =>
       /\ \A k \in Items : SaveDone(k)
       /\ bret = "nil" <=> \A k \in Items : wres[k] = "nil"
  /\ \A k \in Items : wpc[k] # "none" <=> k < li
  /\ wg = Cardinality({k \in Items : wpc[k] \in {"ready", "save"}})

\* C14 witness: a batch of two or more has returned an error after all saves
\* completed, one of them failed and another succeeded.
C14_Witness ==
  /\ BatchReturned
  /\ bret = "error"
  /\ \A k \in Items : SaveDone(k)
  /\ \E a, b \in Items : wres[a] = "error" /\ wres[b] = "nil"

\* C15: the batch save is not all-or-nothing: when it has returned, every
\* item's save was attempted and completed, and exactly the items whose save
\* returned nil are persisted - a failed item takes nothing back - whatever
\* the call returned.
C15_BatchNotAtomic ==
  /\ BatchReturned =>
       /\ \A k \in Items : SaveDone(k)
       /\ stored = {k \in Items : wres[k] = "nil"}
  /\ \A k \in Items : wres[k] = "nil" => k \in stored

\* C15 witness: a batch of 3 whose 2nd item failed has returned a non-nil
\* error while items 1 and 3 are persisted.
C15_Witness ==
  /\ BatchReturned
  /\ Len(datas) = 3
  /\ wres[2] = "error"
  /\ bret = "error"
  /\ stored = {1, 3}

\* ------------------------------------------------ the observation store
\* (internal/db/db.go, the schema, and the services in front of them)
\* most rows the tables hold together
MaxRows == 2

\* latest instant of the model's clock
MaxTime == 2

\* time.Time{}: the zero instant, before every other
ZeroTime == 0

Times == ZeroTime..MaxTime

\* the vineyards of the store
ExistingVineyards == {1, 2}

\* a positive id that no vineyard has
MissingVineyardId == 3

\* the vineyard ids of the observations handed to Save: none, an existing
\* one, and one that no vineyard has
SavedVineyardIds == {0, 1, MissingVineyardId}

\* the vineyard ids queried by date range: none and an existing one
QueriedVineyardIds == {0, 1}

\* a nil *model.SoilData, *model.PestData, ...
NilObservation == [nil |-> TRUE]

\* the observations handed to Save: no identifier yet, a vineyard id and the
\* kind's timestamp (SampledAt, ObservationDate, ObservationTime, CapturedAt)
Observations == [id : {0}, vineyardId : SavedVineyardIds, t : Times]

\* the kinds whose Save uploads a file before it inserts the row
UploadingKinds == {"image", "satellite"}

\* CreateSoilData, CreatePestData, CreateWeatherData, SaveImage,
\* SaveSatelliteData: the only check made before the store is written
SaveRejects(kind, obs) == obs = NilObservation

\* FOREIGN KEY (vineyard_id) REFERENCES vineyards(id)
ForeignKeyHolds(vs, obs) == obs.vineyardId \in vs

\* the id the caller's struct carries after a successful insert: the INSERTs
\* end in RETURNING id, scanned into the struct, except the one of
\* SaveSatelliteImageryMetadata
IdAfterSave(kind, obs, newId) == IF kind = "satellite" THEN obs.id ELSE newId

\* INSERT INTO <the kind's table>: the row with its id, vineyard_id and timestamp
InsertRow(tb, kind, id, obs) ==
  [tb EXCEPT ![kind] = @ \cup {[id |-> id, vineyardId |-> obs.vineyardId, t |-> obs.t]}]

\* the successful saves that can have filled the store before the call the
\* model makes: at most MaxRows of them, each of a kind, for an existing vineyard
EarlierSaves ==
  UNION {[1..n -> [kind : Kinds, vineyardId : ExistingVineyards, t : Times]] :
           n \in 0..MaxRows}

\* the tables as a sequence of successful saves leaves them, every table
\* handing out the ids 1, 2, ...
RECURSIVE TablesAfter(_)
TablesAfter(saves) ==
  IF saves = << >> THEN [k \in Kinds |-> {}]
  ELSE LET before == TablesAfter(SubSeq(saves, 1, Len(saves) - 1))
           last   == saves[Len(saves)]
       IN  InsertRow(before, last.kind, Cardinality(before[last.kind]) + 1, last)

\* no service call has been made yet on the store as it stands
NotCalled == lastOp = NoOp

\* a store filled by earlier saves, on which one service call is made
StoreInit ==
  /\ dataSources = ExampleRegistry
  /\ RcIdle
  /\ MainIdle
  /\ JobIdle
  /\ BatchIdle
  /\ vineyards = ExistingVineyards
  /\ \E saves \in EarlierSaves :
       /\ table = TablesAfter(saves)
       /\ serial = [k \in Kinds |-> Cardinality(TablesAfter(saves)[k])]
  /\ lastOp = NoOp

SaveOp(kind, obs, res, wrote, up) ==
  [name |-> "Save", kind |-> kind, obs |-> obs, res |-> res, wrote |-> wrote,
   uploaded |-> up]

\* the INSERT of db.Save*: it fails on a database error or a vineyard_id no
\* vineyard has, else the row gets the next id of the table's SERIAL column
Insert(kind, obs, up) ==
  \E r \in CallResults :
    IF r # "nil" \/ ~ForeignKeyHolds(vineyards, obs)
      THEN /\ lastOp' = SaveOp(kind, obs, "error", FALSE, up)
           /\ UNCHANGED <<table, serial>>
      ELSE /\ table' = InsertRow(table, kind, serial[kind] + 1, obs)
           /\ serial' = [serial EXCEPT ![kind] = @ + 1]
           /\ lastOp' = SaveOp(kind, [obs EXCEPT !.id = IdAfterSave(kind, obs, serial[kind] + 1)],
                               "nil", TRUE, up)

\* Save of one observation of a kind: the service's check, for an image or
\* satellite image the upload to the bucket, then the INSERT
Save ==
  /\ NotCalled
  /\ \E kind \in Kinds, obs \in Observations \cup {NilObservation} :
       IF SaveRejects(kind, obs)
         THEN /\ lastOp' = SaveOp(kind, obs, "invalid", FALSE, FALSE)
              /\ UNCHANGED <<table, serial>>
         ELSE IF kind \in UploadingKinds
                THEN \E u \in CallResults :
                       IF u # "nil"
                         THEN /\ lastOp' = SaveOp(kind, obs, "error", FALSE, FALSE)
                              /\ UNCHANGED <<table, serial>>
                         ELSE Insert(kind, obs, TRUE)
                ELSE Insert(kind, obs, FALSE)
  /\ UNCHANGED <<vineyards, storeFrame>>

\* the rows of a kind's table that belong to vineyard v: WHERE vineyard_id = $1
RowsOf(kind, v) == {r \in table[kind] : r.vineyardId = v}

\* a range test that leaves out both ends
Between_Exclusive(t, start, end) == start < t /\ t < end

\* `<timestamp column> BETWEEN $2 AND $3`
Between(t, start, end) == start <= t /\ t <= end

\* the services that return "start date must be before end date" when
\* start.After(end): all but soilDataServiceImpl.ListSoilDataByDateRange
ChecksStartAfterEnd(kind) == kind # "soil"

\* the checks a List...ByDateRange service makes before it queries the store
RangeRejects(kind, v, start, end) ==
  \/ v <= 0
  \/ ChecksStartAfterEnd(kind) /\ start > end

\* what rows.Scan makes of a fetched row: its id, vineyard_id and timestamp
\* columns, for soil overlaid by json.Unmarshal of the data column, which holds
\* the struct as it was handed to Save (id 0, same vineyard and timestamp)
ScanRow(kind, r) == IF kind = "soil" THEN [r EXCEPT !.id = 0] ELSE r

\* the rows a ...ByDateRange query of db.go fetches, by id, as scanned
SelectByDateRange(kind, v, start, end) ==
  LET hit == {r \in RowsOf(kind, v) : Between(r.t, start, end)}
  IN  [x \in {r.id : r \in hit} |-> ScanRow(kind, CHOOSE r \in hit : r.id = x)]

NoRows == << >>

RangeOp(kind, v, start, end, res, queried, rows) ==
  [name |-> "ListByDateRange", kind |-> kind, v |-> v, start |-> start, end |-> end,
   res |-> res, queried |-> queried, rows |-> rows]

\* ListSoilDataByDateRange, ListPestDataByDateRange, ListWeatherDataByDateRange,
\* FindImagesByDateRange, ListSatelliteImageryByDateRange: the service's checks,
\* then the query, which a database error can fail
ListByDateRange ==
  /\ NotCalled
  /\ \E kind \in Kinds, v \in QueriedVineyardIds, start \in Times, end \in Times :
       IF RangeRejects(kind, v, start, end)
         THEN lastOp' = RangeOp(kind, v, start, end, "invalid", FALSE, NoRows)
         ELSE \E r \in CallResults :
                lastOp' = IF r # "nil"
                            THEN RangeOp(kind, v, start, end, "error", TRUE, NoRows)
                            ELSE RangeOp(kind, v, start, end, "nil", TRUE,
                                         SelectByDateRange(kind, v, start, end))
  /\ UNCHANGED <<vineyards, table, serial, storeFrame>>

\* where a database failure can strike GetVineyardWithEnvironmentalData: the
\* vineyard query, the imagery query, the iteration of the imagery rows, the
\* soil query, the iteration of the soil rows
SnapshotFaults ==
  {"none", "GetVineyard", "imageryQuery", "imageryRows", "soilQuery", "soilRows"}

\* a nil *model.Vineyard
NilVineyard == [nil |-> TRUE]

\* GetSatelliteImageryForVineyard scans image_url and captured_at only
ScanImagery(r) == [id |-> 0, vineyardId |-> 0, t |-> r.t]

\* the row sets GetSatelliteImageryForVineyard can have appended when its loop
\* ends: all of them, or, when rows.Next() stopped on a failure, only some
ImageryFetched(rows, fault) ==
  IF fault = "imageryRows" /\ rows # {} THEN SUBSET rows \ {rows} ELSE {rows}

\* GetSatelliteImageryForVineyard: a failed query is an error; the loop's end
\* is not followed by rows.Err(), so what was appended is returned with nil
ImageryResults(rows, fault) ==
  IF fault = "imageryQuery" THEN {[err |-> "error", rows |-> NoRows]}
  ELSE {[err |-> "nil", rows |-> [x \in {r.id : r \in got} |->
                                     ScanImagery(CHOOSE r \in got : r.id = x)]] :
          got \in ImageryFetched(rows, fault)}

\* GetSoilDataForVineyard: a failed query, a failed iteration (rows.Err() is
\* checked) or a fetched row is an error - rows.Scan(&data) cannot store the
\* data column into a model.SoilData
SoilResult(rows, fault) ==
  IF fault \in {"soilQuery", "soilRows"} \/ rows # {}
    THEN [err |-> "error", rows |-> NoRows]
    ELSE [err |-> "nil", rows |-> NoRows]

\* model.Vineyard as GetVineyardWithEnvironmentalData fills it
VineyardOf(v, imagery, soil) ==
  [ID |-> v, SatelliteImagery |-> imagery, SoilHealth |-> soil]

SnapshotOp(v, fault, res, snap) ==
  [name |-> "Snapshot", v |-> v, fault |-> fault, res |-> res, snap |-> snap]

\* vineyardServiceImpl.GetVineyardWithEnvironmentalData and the db method
\* under it
GetVineyardWithEnvironmentalData ==
  /\ NotCalled
  /\ \E v \in SavedVineyardIds, fault \in SnapshotFaults :
       IF v <= 0
         THEN lastOp' = SnapshotOp(v, fault, "invalid", NilVineyard)
         ELSE IF fault = "GetVineyard" \/ v \notin vineyards
           THEN lastOp' = SnapshotOp(v, fault, "error", NilVineyard)
           ELSE \E img \in ImageryResults(RowsOf("satellite", v), fault) :
                  IF img.err # "nil"
                    THEN lastOp' = SnapshotOp(v, fault, "error", NilVineyard)
                    ELSE IF SoilResult(RowsOf("soil", v), fault).err # "nil"
                      THEN lastOp' = SnapshotOp(v, fault, "error", NilVineyard)
                      ELSE lastOp' = SnapshotOp(v, fault, "nil",
                                       VineyardOf(v, img.rows,
                                                  SoilResult(RowsOf("soil", v), fault).rows))
  /\ UNCHANGED <<vineyards, table, serial, storeFrame>>

\* a positive id that no row of any table has: the tables hold at most MaxRows
\* rows, with the ids 1, 2, ...
AbsentId == MaxRows + 1

\* the ids of the observations handed to Update, Get and Delete: none, the
\* first of a table, and one that no row has
CalledIds == {0, 1, AbsentId}

\* the observations handed to Update: an id, the second vineyard or one that
\* does not exist, and the kind's timestamp
Updates == [id : CalledIds, vineyardId : {2, MissingVineyardId}, t : Times]

\* UpdateSoilData, UpdatePestData, UpdateWeatherData, UpdateImage,
\* UpdateSatelliteData: the checks made before the store is touched
UpdateRejects(obs) == obs = NilObservation \/ obs.id = 0

\* the UPDATE statements whose SET list names vineyard_id: those of images and
\* satellite_imagery; soil_data, pest_data and weather_data leave the column
SetsVineyardId(kind) == kind \in {"image", "satellite"}

\* UPDATE <the kind's table> SET ... WHERE id = $n
UpdateRow(tb, kind, obs) ==
  [tb EXCEPT ![kind] =
     {IF r.id = obs.id
        THEN [r EXCEPT !.t = obs.t,
                       !.vineyardId = IF SetsVineyardId(kind) THEN obs.vineyardId ELSE @]
        ELSE r : r \in @}]

\* a statement that reports the id it did not find
AfterExec_NotFound(found) == IF found THEN "nil" ELSE "ErrNoRows"

\* `_, err := db.ExecContext(...)` without a failure: the sql.Result, and with
\* it the number of rows the UPDATE or DELETE touched, is thrown away
AfterExec(found) == "nil"

\* `err := row.Scan(...)` of QueryRowContext without a failure: sql.ErrNoRows
\* when no row has the id
ScanResult(found) == IF found THEN "nil" ELSE "ErrNoRows"

HasId(rows, id) == \E r \in rows : r.id = id

UpdateOp(kind, obs, res, fault, before) ==
  [name |-> "Update", kind |-> kind, obs |-> obs, res |-> res, fault |-> fault,
   before |-> before]

\* db.Update*: ExecContext of the UPDATE; it fails on a database error or when
\* it would give a row a vineyard_id no vineyard has, and succeeds whether or
\* not a row has the id (the number of affected rows is not read)
ExecUpdate(kind, obs) ==
  \E r \in CallResults :
    IF \/ r # "nil"
       \/ /\ SetsVineyardId(kind)
          /\ HasId(table[kind], obs.id)
          /\ ~ForeignKeyHolds(vineyards, obs)
      THEN /\ lastOp' = UpdateOp(kind, obs, "error", r # "nil", table)
           /\ UNCHANGED table
      ELSE IF AfterExec(HasId(table[kind], obs.id)) # "nil"
        THEN /\ lastOp' = UpdateOp(kind, obs, AfterExec(HasId(table[kind], obs.id)),
                                   FALSE, table)
             /\ UNCHANGED table
        ELSE /\ table' = UpdateRow(table, kind, obs)
             /\ lastOp' = UpdateOp(kind, obs, "nil", FALSE, table)

\* Update of one observation of a kind: the service's checks, for a satellite
\* image the upload of the new file, then the UPDATE
Update ==
  /\ NotCalled
  /\ \E kind \in Kinds, obs \in Updates \cup {NilObservation} :
       IF UpdateRejects(obs)
         THEN /\ lastOp' = UpdateOp(kind, obs, "invalid", FALSE, table)
              /\ UNCHANGED table
         ELSE IF kind = "satellite"
                THEN \E u \in CallResults :
                       IF u # "nil"
                         THEN /\ lastOp' = UpdateOp(kind, obs, "error", TRUE, table)
                              /\ UNCHANGED table
                         ELSE ExecUpdate(kind, obs)
                ELSE ExecUpdate(kind, obs)
  /\ UNCHANGED <<vineyards, serial, storeFrame>>

\* the limits handed to GetRecentImages: negative, zero, and up to the number
\* of rows the store can hold
Limits == -1..MaxRows

\* imageServiceImpl.GetRecentImages: the checks made before the store is queried
RecentRejects(v, limit) == v <= 0 \/ limit <= 0

\* ORDER BY captured_at DESC: the orders in which the database can hand out
\* the rows, latest first, rows of equal captured_at in either order
OrderByCapturedAtDesc(rows) ==
  {s \in [1..Cardinality(rows) -> rows] :
     /\ \A a, b \in DOMAIN s : a # b => s[a] # s[b]
     /\ \A a, b \in DOMAIN s : a < b => s[a].t >= s[b].t}

\* a query that hands out every row
Limit_None(rows, limit) == rows

\* LIMIT $2: the first limit rows of the ordered result
Limit(rows, limit) ==
  SubSeq(rows, 1, IF limit < Len(rows) THEN limit ELSE Len(rows))

RecentOp(v, limit, res, queried, rows) ==
  [name |-> "GetRecentImages", v |-> v, limit |-> limit, res |-> res,
   queried |-> queried, rows |-> rows]

\* imageServiceImpl.GetRecentImages and db.GetRecentImages under it: the
\* checks, then the query, which a database error can fail
GetRecentImages ==
  /\ NotCalled
  /\ \E v \in QueriedVineyardIds, limit \in Limits :
       IF RecentRejects(v, limit)
         THEN lastOp' = RecentOp(v, limit, "invalid", FALSE, NoRows)
         ELSE \E r \in CallResults :
                IF r # "nil"
                  THEN lastOp' = RecentOp(v, limit, "error", TRUE, NoRows)
                  ELSE \E s \in OrderByCapturedAtDesc(RowsOf("image", v)) :
                         lastOp' = RecentOp(v, limit, "nil", TRUE, Limit(s, limit))
  /\ UNCHANGED <<vineyards, table, serial, storeFrame>>

DeleteOp(kind, id, res, fault, before) ==
  [name |-> "Delete", kind |-> kind, id |-> id, res |-> res, fault |-> fault,
   before |-> before]

\* DeleteSoilData, DeletePestData, DeleteWeatherData, DeleteImage,
\* DeleteSatelliteData: the service's check of the id, then
\* DELETE FROM <the kind's table> WHERE id = $1
Delete ==
  /\ NotCalled
  /\ \E kind \in Kinds, id \in CalledIds :
       IF id <= 0
         THEN /\ lastOp' = DeleteOp(kind, id, "invalid", FALSE, table)
              /\ UNCHANGED table
         ELSE \E r \in CallResults :
                IF r # "nil"
                  THEN /\ lastOp' = DeleteOp(kind, id, "error", TRUE, table)
                       /\ UNCHANGED table
                  ELSE /\ lastOp' = DeleteOp(kind, id, AfterExec(HasId(table[kind], id)),
                                             FALSE, table)
                       /\ table' = [table EXCEPT ![kind] = {x \in @ : x.id # id}]
  /\ UNCHANGED <<vineyards, serial, storeFrame>>

GetOp(kind, id, res, row) ==
  [name |-> "Get", kind |-> kind, id |-> id, res |-> res, row |-> row]

\* GetSoilData, GetPestData, GetWeatherData, GetImage, GetSatelliteData: the
\* service's check of the id, then the SELECT ... WHERE id = $1 and its Scan
Get ==
  /\ NotCalled
  /\ \E kind \in Kinds, id \in CalledIds :
       IF id <= 0
         THEN lastOp' = GetOp(kind, id, "invalid", NilObservation)
         ELSE \E r \in CallResults :
                IF r # "nil"
                  THEN lastOp' = GetOp(kind, id, "error", NilObservation)
                  ELSE IF ScanResult(HasId(table[kind], id)) # "nil"
                    THEN lastOp' = GetOp(kind, id, ScanResult(HasId(table[kind], id)),
                                         NilObservation)
                    ELSE lastOp' = GetOp(kind, id, "nil",
                                         ScanRow(kind, CHOOSE x \in table[kind] : x.id = id))
  /\ UNCHANGED <<vineyards, table, serial, storeFrame>>

\* a schema whose foreign keys let the rows of a deleted vineyard stay
Cascade_None(tb, v) == tb

\* FOREIGN KEY (vineyard_id) REFERENCES vineyards(id) ON DELETE CASCADE, on
\* every observation table: the rows of vineyard v go with it
Cascade(tb, v) == [k \in Kinds |-> {x \in tb[k] : x.vineyardId # v}]

DeleteVineyardOp(v, res, before) ==
  [name |-> "DeleteVineyard", v |-> v, res |-> res, before |-> before]

\* vineyardServiceImpl.DeleteVineyard: the check of the id, then
\* DELETE FROM vineyards WHERE id = $1
DeleteVineyard ==
  /\ NotCalled
  /\ \E v \in SavedVineyardIds :
       IF v <= 0
         THEN /\ lastOp' = DeleteVineyardOp(v, "invalid", table)
              /\ UNCHANGED <<vineyards, table>>
         ELSE \E r \in CallResults :
                IF r # "nil"
                  THEN /\ lastOp' = DeleteVineyardOp(v, "error", table)
                       /\ UNCHANGED <<vineyards, table>>
                  ELSE /\ lastOp' = DeleteVineyardOp(v, "nil", table)
                       /\ vineyards' = vineyards \ {v}
                       /\ table' = Cascade(table, v)
  /\ UNCHANGED <<serial, storeFrame>>

StoreNext ==
  \/ Save
  \/ ListByDateRange
  \/ GetVineyardWithEnvironmentalData
  \/ Update
  \/ GetRecentImages
  \/ Delete
  \/ Get
  \/ DeleteVineyard

StoreSpec == StoreInit /\ [][StoreNext]_vars

\* ------------------------------------------------ claims on the store
SnapshotMade == lastOp.name = "Snapshot"

RangeListed == lastOp.name = "ListByDateRange"

SaveMade == lastOp.name = "Save"

\* the ids of the rows of a kind stored for vineyard v
StoredIds(kind, v) == {r.id : r \in RowsOf(kind, v)}

\* the kinds a snapshot is to hold, with the field of model.Vineyard for each;
\* model.Vineyard has a field for two of them only
SnapshotKinds == {"soil", "pest", "weather", "satellite"}

SnapshotField(kind) ==
  CASE kind = "soil" -> "SoilHealth"
    [] kind = "satellite" -> "SatelliteImagery"
    [] kind = "pest" -> "PestData"
    [] kind = "weather" -> "WeatherData"

\* C16 (as stated): a snapshot call for a vineyard that does not exist, or
\* struck by a failure of any query or of any row iteration, returns an error
\* and no snapshot; a snapshot returned with a nil error holds every imagery
\* row stored for the vineyard.
C16_SnapshotFailsAsAWhole ==
  SnapshotMade =>
    /\ (lastOp.v \notin vineyards \/ lastOp.fault # "none")
         => lastOp.res # "nil" /\ lastOp.snap = NilVineyard
    /\ lastOp.res = "nil"
         => DOMAIN lastOp.snap.SatelliteImagery = StoredIds("satellite", lastOp.v)

\* C17 (as stated): a snapshot returned with a nil error, no failure having
\* struck, has a sequence for each of soil, pests, weather and imagery, holding
\* exactly the rows of that kind stored for the vineyard.
C17_SnapshotHoldsFourKinds ==
  (SnapshotMade /\ lastOp.res = "nil" /\ lastOp.fault = "none") =>
    \A kind \in SnapshotKinds :
      /\ SnapshotField(kind) \in DOMAIN lastOp.snap
      /\ DOMAIN lastOp.snap[SnapshotField(kind)] = StoredIds(kind, lastOp.v)

\* C18 (as stated): for every kind, a date-range listing with start after end
\* fails with the service's validation error without querying the store, and
\* one with start = end (for a valid vineyard id) is not rejected.
C18_StartAfterEndRejected ==
  RangeListed =>
    /\ lastOp.start > lastOp.end => lastOp.res = "invalid" /\ ~lastOp.queried
    /\ (lastOp.start = lastOp.end /\ lastOp.v > 0) => lastOp.res # "invalid"

\* C19: for start <= end and a positive vineyard id the listing is not
\* rejected, and when the query succeeds it returns one observation for each
\* stored row of that kind whose vineyard is the one asked for and whose own
\* timestamp t satisfies start <= t <= end, and for no other row; each carries
\* the asked vineyard and its row's timestamp. With no such row the result is
\* empty, with a nil error.
C19_DateRangeInclusive ==
  (RangeListed /\ lastOp.start <= lastOp.end /\ lastOp.v > 0) =>
    /\ lastOp.res # "invalid"
    /\ lastOp.res = "nil" =>
         LET match == {r \in table[lastOp.kind] :
                         /\ r.vineyardId = lastOp.v
                         /\ lastOp.start <= r.t
                         /\ r.t <= lastOp.end}
         IN  /\ DOMAIN lastOp.rows = {r.id : r \in match}
             /\ \A r \in match : /\ lastOp.rows[r.id].vineyardId = lastOp.v
                                 /\ lastOp.rows[r.id].t = r.t
             /\ match = {} => lastOp.rows = NoRows

\* C19 witness: a listing with start before end has returned an observation
\* stamped exactly at start, while a row of the same kind and vineyard stamped
\* after end is left out.
C19_Witness ==
  /\ RangeListed
  /\ lastOp.res = "nil"
  /\ lastOp.start < lastOp.end
  /\ \E a \in DOMAIN lastOp.rows : lastOp.rows[a].t = lastOp.start
  /\ \E r \in RowsOf(lastOp.kind, lastOp.v) :
       r.t > lastOp.end /\ r.id \notin DOMAIN lastOp.rows

\* C20 (as stated, any error counted as the failure): a save of an
\* observation whose vineyard id is not positive or whose timestamp is the zero
\* instant returns an error, and neither a row nor a file is written.
C20_SaveValidatesObservation ==
  (SaveMade /\ lastOp.obs # NilObservation
     /\ (lastOp.obs.vineyardId <= 0 \/ lastOp.obs.t = ZeroTime)) =>
    /\ lastOp.res # "nil"
    /\ ~lastOp.wrote
    /\ ~lastOp.uploaded

\* C21 (as stated): after a save that returned nil, the caller's observation
\* carries an id that is not zero and that no row of its kind stored before the
\* save has (the only row with it is the one just inserted).
C21_SaveYieldsNewId ==
  (SaveMade /\ lastOp.res = "nil") =>
    /\ lastOp.obs.id # 0
    /\ \A r \in table[lastOp.kind] : r.id = lastOp.obs.id => r.id = serial[lastOp.kind]

UpdateMade == lastOp.name = "Update"

\* C22 (as stated): an Update with id 0 is rejected and leaves the store as it
\* was, and after a successful Update of an observation the store held, the
\* stored row with that id has the supplied vineyardId and timestamp, for every
\* kind.
C22_UpdateReplacesEveryField ==
  /\ (UpdateMade /\ lastOp.obs # NilObservation /\ lastOp.obs.id = 0) =>
       lastOp.res = "invalid" /\ table = lastOp.before
  /\ (/\ UpdateMade
      /\ lastOp.res = "nil"
      /\ \E r \in lastOp.before[lastOp.kind] : r.id = lastOp.obs.id) =>
       \E r \in table[lastOp.kind] :
         /\ r.id = lastOp.obs.id
         /\ r.vineyardId = lastOp.obs.vineyardId
         /\ r.t = lastOp.obs.t

RecentListed == lastOp.name = "GetRecentImages"

\* C23: GetRecentImages with a limit <= 0 fails without querying the store; with
\* a positive limit (and a vineyard id) a successful call returns rows of the
\* vineyard, none twice, latest first, as many as the limit allows, and no row
\* left out is later than a returned one.
C23_RecentAreLatestFirstUpToLimit ==
  /\ (RecentListed /\ lastOp.limit <= 0) =>
       lastOp.res = "invalid" /\ ~lastOp.queried
  /\ (RecentListed /\ lastOp.res = "nil") =>
       LET rows == lastOp.rows
           all  == RowsOf("image", lastOp.v)
           got  == {rows[a] : a \in DOMAIN rows}
       IN  /\ lastOp.limit > 0
           /\ got \subseteq all
           /\ Cardinality(got) = Len(rows)
           /\ Len(rows) = IF lastOp.limit < Cardinality(all)
                            THEN lastOp.limit ELSE Cardinality(all)
           /\ \A a, b \in DOMAIN rows : a < b => rows[a].t >= rows[b].t
           /\ \A r \in all \ got : \A a \in DOMAIN rows : r.t <= rows[a].t

\* a call whose limit cut off an earlier image of the vineyard
C23_Witness ==
  /\ RecentListed
  /\ lastOp.res = "nil"
  /\ Len(lastOp.rows) = lastOp.limit
  /\ \E r \in RowsOf("image", lastOp.v) : r.t < lastOp.rows[Len(lastOp.rows)].t

\* ------------------------------------ claims on the batch save's error report
\* C24: when the batch save returns an error after launching its saves, the
\* error is that of exactly one item, an item whose save failed, and it is the
\* first one the goroutines sent on the channel; it returns no item's error
\* when it returns nil.
C24_SurfacesFirstReportedError ==
  BatchReturned =>
    /\ bret = "error" <=> bfrom # NoItem
    /\ bret = "error" =>
         /\ bfrom \in Items
         /\ wres[bfrom] = "error"
         /\ bfrom = Head(errChan)

\* C24 witness: the save of the first item submitted failed, and the error
\* returned is that of a later item, which reported before it.
C24_Witness ==
  /\ BatchReturned
  /\ bret = "error"
  /\ wres[1] = "error"
  /\ bfrom > 1

\* a goroutine of the batch that has not finished its save
Running(k) == wpc[k] \in {"ready", "save"}

\* C25: while a goroutine of the batch is still running the error channel has
\* room for its error, so its send cannot block, and the batch save returns in
\* the end, whatever the size of the batch and however many saves fail.
C25_NeverBlocksAndReturns ==
  /\ [](\A k \in Items : Running(k) => Len(errChan) < Capacity(Len(datas)))
  /\ <>(bpc = "returned")

\* C25 witness: a batch of MaxBatch whose saves all failed has returned, the
\* channel holding an error of every item.
C25_Witness ==
  /\ BatchReturned
  /\ Len(datas) = MaxBatch
  /\ Len(errChan) = Len(datas)

\* ------------------------------------------ claims on the reconciler's frame
\* C26: every step of the reconciler leaves each job the scheduler holds as it
\* is - none is deleted, none is modified - and at most appends new ones.
C26_OnlyAddsJobs ==
  [][/\ Len(jobs') >= Len(jobs)
     /\ \A k \in 1..Len(jobs) : jobs'[k] = jobs[k]]_vars

\* C26 witness: a reconciliation has returned; it found the stale job of an
\* enabled source and left it differing from the configuration, it left the
\* job of the removed source, and it created the job of another source.
C26_Witness ==
  /\ RunDone
  /\ \E n \in Names :
       /\ Enabled(n)
       /\ Succeeded(n)
       /\ \E k \in 1..Len(jobs) :
            /\ jobs[k] = StaleJob(n)
            /\ jobs[k] # JobOf(jobName(n), dataSources[n])
  /\ \E k \in 1..Len(jobs) : jobs[k] = StaleJob(RemovedName)
  /\ \E m \in Names, k \in 1..Len(jobs) :
       NumCreate(m) > 0 /\ jobs[k] = JobOf(jobName(m), dataSources[m])

\* C27: for a source whose Enabled flag is false the reconciler makes no GetJob
\* and no CreateJob call and never sleeps - ensureJob is never entered for it -
\* whatever its schedule and other fields are.
C27_DisabledSourceUntouched ==
  \A n \in Names :
    ~Enabled(n) =>
      /\ log[n] = << >>
      /\ cur # n
      /\ ensured[n] = "none"

\* C27 witness: a reconciliation has returned that made calls for an enabled
\* source and none for a disabled one whose schedule is malformed.
C27_Witness ==
  /\ RunDone
  /\ \E n, m \in Names :
       /\ ~Enabled(n)
       /\ dataSources[n].Schedule = MalformedSchedule
       /\ log[n] = << >>
       /\ Enabled(m)
       /\ NumCreate(m) > 0

\* ------------------------------------- claims on the two writes of one save
\* C28: in every save of a satellite image the row is written only after the
\* upload has succeeded and its image_url is the URL the storage returned; a
\* save that has failed has written no row, whether or not it had uploaded its
\* object, and nothing takes an uploaded object back.
C28_UploadBeforeMetadata ==
  \A k \in Items :
    /\ k \in stored => k \in uploaded /\ rowURL[k] = MediaLink(Path(k))
    /\ k \notin stored => rowURL[k] = NoURL
    /\ (SaveDone(k) /\ wres[k] = "error") => k \notin stored
    /\ wpc[k] = "save" => k \in uploaded /\ k \notin stored

\* C28 witness: one save wrote its row after its upload, another failed at
\* the insert and left its object in the bucket without a row, and a third
\* failed at the upload and left neither.
C28_Witness ==
  \E a, b, c \in Items :
    /\ SaveDone(a) /\ a \in stored /\ a \in uploaded
    /\ SaveDone(b) /\ wres[b] = "error" /\ b \in uploaded /\ b \notin stored
    /\ SaveDone(c) /\ wres[c] = "error" /\ datas[c] = "data" /\ c \notin uploaded

\* ------------------------------------- claims on ids the store does not hold
DeleteMade == lastOp.name = "Delete"

GetMade == lastOp.name = "Get"

\* C29: an Update or a Delete of a positive id that no row of the kind has
\* leaves the store as it was and, unless the upload or the database fails,
\* returns nil; after a Delete that returned nil no row of the kind has the id;
\* a Get of such an id returns an error and no observation.
C29_AbsentIdUpdateDeleteSucceed ==
  /\ (/\ UpdateMade
      /\ lastOp.obs # NilObservation
      /\ lastOp.obs.id > 0
      /\ ~HasId(lastOp.before[lastOp.kind], lastOp.obs.id)) =>
       /\ table = lastOp.before
       /\ lastOp.res = IF lastOp.fault THEN "error" ELSE "nil"
  /\ (DeleteMade /\ lastOp.id > 0 /\ ~HasId(lastOp.before[lastOp.kind], lastOp.id)) =>
       /\ table = lastOp.before
       /\ lastOp.res = IF lastOp.fault THEN "error" ELSE "nil"
  /\ (DeleteMade /\ lastOp.res = "nil") => ~HasId(table[lastOp.kind], lastOp.id)
  /\ (GetMade /\ lastOp.id > 0 /\ ~HasId(table[lastOp.kind], lastOp.id)) =>
       lastOp.res \in {"ErrNoRows", "error"} /\ lastOp.row = NilObservation

\* C29 witness: a Delete of an id that no row has returned nil on a table
\* that holds rows, all of them still there.
C29_Witness ==
  /\ DeleteMade
  /\ lastOp.id = AbsentId
  /\ lastOp.res = "nil"
  /\ table[lastOp.kind] # {}
  /\ table = lastOp.before

\* ------------------------------------------- claims on referential integrity
VineyardDeleted == lastOp.name = "DeleteVineyard"

\* C30: every stored observation belongs to a vineyard the store holds, before
\* and after any call; a Save for a vineyard the store does not hold fails and
\* writes nothing; a successful DeleteVineyard removes the vineyard and exactly
\* the rows of it, of every kind; a successful Delete of an observation removes
\* the row with that id of that kind and nothing else.
C30_ObservationsBelongToVineyards ==
  /\ \A k \in Kinds : \A r \in table[k] : r.vineyardId \in vineyards
  /\ (SaveMade /\ lastOp.obs # NilObservation /\ lastOp.obs.vineyardId \notin vineyards) =>
       lastOp.res # "nil" /\ ~lastOp.wrote
  /\ (VineyardDeleted /\ lastOp.res = "nil") =>
       /\ lastOp.v \notin vineyards
       /\ \A k \in Kinds : table[k] = {r \in lastOp.before[k] : r.vineyardId # lastOp.v}
  /\ (DeleteMade /\ lastOp.res = "nil") =>
       /\ vineyards = ExistingVineyards
       /\ \A k \in Kinds :
            table[k] = IF k = lastOp.kind
                         THEN {r \in lastOp.before[k] : r.id # lastOp.id}
                         ELSE lastOp.before[k]

\* C30 witness: a vineyard that had observations of two kinds has been deleted
\* and none of them is left.
C30_Witness ==
  /\ VineyardDeleted
  /\ lastOp.res = "nil"
  /\ \E a, b \in Kinds :
       /\ a # b
       /\ \E r \in lastOp.before[a] : r.vineyardId = lastOp.v
       /\ \E r \in lastOp.before[b] : r.vineyardId = lastOp.v
  /\ \A k \in Kinds : \A r \in table[k] : r.vineyardId # lastOp.v

====
